---- MODULE Spec2Model ----
(***************************************************************************)
(* Frame selection and atlas packing of the flip-predict sprite scripts.   *)
(*                                                                         *)
(* One behaviour is one run of one script: the script loads N frames,      *)
(* selects a list of frame indices, lays an atlas out and pastes the       *)
(* selected frames one by one, then prints the parameters for the          *)
(* animator.  The scripts that copy or re-save one atlas, and the one that *)
(* only scans a sequence, are runs of their own.                           *)
(* Values a script fixes in a local or module-level name                   *)
(* (target_frames, frames_per_row, the head cap 120, ...) are parameters   *)
(* of the operators that model the script and are drawn from small sets.   *)
(*                                                                         *)
(* Python's float arithmetic (IEEE-754 binary64, round to nearest, ties    *)
(* to even) is modelled exactly on multi-limb naturals, because the        *)
(* scripts truncate float products and quotients to indices.               *)
(***************************************************************************)
EXTENDS Integers, Sequences, FiniteSets, TLC

(***************************************************************************)
(* Natural numbers of any size: little-endian sequences of limbs in        *)
(* 0..Base-1 without a leading zero limb; << >> is zero.                   *)
(***************************************************************************)
Base == 2^15

RECURSIVE BigOfInt(_)
BigOfInt(n) ==
    IF n = 0 THEN << >> ELSE <<n % Base>> \o BigOfInt(n \div Base)

RECURSIVE BigNorm(_)
BigNorm(a) ==
    IF a = << >> THEN a
    ELSE IF a[Len(a)] = 0 THEN BigNorm(SubSeq(a, 1, Len(a) - 1))
    ELSE a

RECURSIVE BigToInt(_)
BigToInt(a) ==
    IF a = << >> THEN 0 ELSE a[1] + Base * BigToInt(Tail(a))

\* a * k + c for a limb-sized k and c
RECURSIVE BigMulSmall(_, _, _)
BigMulSmall(a, k, c) ==
    IF a = << >> THEN BigOfInt(c)
    ELSE LET t == a[1] * k + c
         IN  <<t % Base>> \o BigMulSmall(Tail(a), k, t \div Base)

\* a + b + c for a carry c in 0..1
RECURSIVE BigAdd(_, _, _)
BigAdd(a, b, c) ==
    IF a = << >> /\ b = << >> THEN BigOfInt(c)
    ELSE LET x == IF a = << >> THEN 0 ELSE a[1]
             y == IF b = << >> THEN 0 ELSE b[1]
             t == x + y + c
         IN  <<t % Base>> \o BigAdd(IF a = << >> THEN a ELSE Tail(a),
                                    IF b = << >> THEN b ELSE Tail(b),
                                    t \div Base)

RECURSIVE BigMul(_, _)
BigMul(a, b) ==
    IF a = << >> \/ b = << >> THEN << >>
    ELSE BigNorm(BigAdd(BigMulSmall(a, b[1], 0),
                        <<0>> \o BigMul(a, Tail(b)), 0))

\* quotient (limbs, not normalised) and remainder of a by a limb-sized d
RECURSIVE BigDivRem(_, _)
BigDivRem(a, d) ==
    IF a = << >> THEN [q |-> << >>, r |-> 0]
    ELSE LET hi == BigDivRem(Tail(a), d)
             t  == hi.r * Base + a[1]
         IN  [q |-> <<t \div d>> \o hi.q, r |-> t % d]

RECURSIVE BitLen(_)
BitLen(n) ==
    IF n = 0 THEN 0 ELSE 1 + BitLen(n \div 2)

BigBitLen(a) ==
    IF a = << >> THEN 0 ELSE 15 * (Len(a) - 1) + BitLen(a[Len(a)])

Zeros(k) ==
    [i \in 1..k |-> 0]

\* a * 2^k
BigShl(a, k) ==
    IF a = << >> THEN a
    ELSE BigNorm(Zeros(k \div 15) \o BigMulSmall(a, 2^(k % 15), 0))

\* floor(a / 2^k)
BigShr(a, k) ==
    IF k \div 15 >= Len(a) THEN << >>
    ELSE BigNorm(BigDivRem(SubSeq(a, (k \div 15) + 1, Len(a)), 2^(k % 15)).q)

RECURSIVE BigLess(_, _)
BigLess(a, b) ==
    IF Len(a) # Len(b) THEN Len(a) < Len(b)
    ELSE IF a = << >> THEN FALSE
    ELSE IF a[Len(a)] # b[Len(b)] THEN a[Len(a)] < b[Len(b)]
    ELSE BigLess(SubSeq(a, 1, Len(a) - 1), SubSeq(b, 1, Len(b) - 1))

(***************************************************************************)
(* Non-negative binary64 values: [m, e] stands for m * 2^e with m a        *)
(* natural of at most 53 bits (or exactly 2^53).  The values met here are  *)
(* far from the subnormal and the overflow range.                          *)
(***************************************************************************)
FZero == [m |-> << >>, e |-> 0]

\* the binary64 nearest to (A + s) * 2^e, where 0 < s < 1 iff sticky
FRound(A, e, sticky) ==
    LET L == BigBitLen(A) IN
    IF L <= 53 THEN [m |-> A, e |-> e]
    ELSE LET sh    == L - 53
             q1    == BigShr(A, sh - 1)
             lost  == sticky \/ BigShl(q1, sh - 1) # A
             guard == q1[1] % 2
             m0    == BigShr(q1, 1)
             odd   == m0[1] % 2 = 1
             up    == guard = 1 /\ (lost \/ odd)
         IN  [m |-> IF up THEN BigAdd(m0, << >>, 1) ELSE m0, e |-> e + sh]

\* float(n) for an int n >= 0
FOfInt(n) ==
    [m |-> BigOfInt(n), e |-> 0]

\* p / q for ints p >= 0, q > 0 (Python's true division): the quotient is
\* taken to 75 fractional bits with the remainder as sticky bit, then rounded
FDiv(p, q) ==
    IF p = 0 THEN FZero
    ELSE LET dr == BigDivRem(Zeros(5) \o BigOfInt(p), q)
         IN  FRound(BigNorm(dr.q), -75, dr.r # 0)

\* x * y
FMul(x, y) ==
    IF x.m = << >> \/ y.m = << >> THEN FZero
    ELSE FRound(BigMul(x.m, y.m), x.e + y.e, FALSE)

\* int(x): truncation toward zero
FTrunc(x) ==
    IF x.e >= 0 THEN BigToInt(BigShl(x.m, x.e))
    ELSE BigToInt(BigShr(x.m, 0 - x.e))

\* x < y
FLess(x, y) ==
    LET e0 == IF x.e < y.e THEN x.e ELSE y.e
    IN  BigLess(BigShl(x.m, x.e - e0), BigShl(y.m, y.e - e0))

\* the float literal 0.3 = 5404319552844595 * 2^-54
F03 == [m |-> <<13107, 26214, 19660, 153>>, e |-> -54]

\* the float literal 0.8 = 3602879701896397 * 2^-52
F08 == [m |-> <<19661, 6553, 13107, 102>>, e |-> -52]

\* the float literal 0.5 = 1 * 2^-1
F05 == [m |-> <<1>>, e |-> -1]

Min(a, b) == IF a < b THEN a ELSE b

\* list(range(n))
Range(n) ==
    [i \in 1..n |-> i - 1]

\* the indices of seq[a:b] for a sequence of n elements and 0 <= a
Slice(n, a, b) ==
    [i \in 1..(IF Min(b, n) > Min(a, n) THEN Min(b, n) - Min(a, n) ELSE 0)
        |-> Min(a, n) + i - 1]

RECURSIVE Sum(_)
Sum(s) ==
    IF s = << >> THEN 0 ELSE Head(s) + Sum(Tail(s))

(***************************************************************************)
(* Bounds of the model.                                                    *)
(***************************************************************************)
MaxN == 16
MaxK == 12
MaxCapN == 6
MaxCell == 2
MaxCols == 3
MaxPad == 1
MaxD == 7
MaxTail == 2
MaxStart == 2
MaxEnd == 4
MaxBadPos == 1

\* frame sizes (w, h) the loaded images may have
FrameSizes == {1, MaxCell} \X {1, MaxCell}

\* the index and the size of the one file whose size may differ from the
\* size of the other files of its folder
OddPositions == {0, 1}
OddSizes == {<<1, 3>>, <<3, 1>>, <<3, 3>>}

\* values of the inter-frame difference (mean absolute difference, 0..255)
DVals == {0, 30}

(***************************************************************************)
(* Frame selection.                                                        *)
(***************************************************************************)

\* create_bailongma_2k: step = (total_frames - 1) / (target_frames - 1)
\* raises ZeroDivisionError when the else branch is taken with target 1
UniformStepRaises(total_frames, target_frames) ==
    total_frames > target_frames /\ target_frames - 1 = 0

\* create_bailongma_2k: frame_indices
UniformStep(total_frames, target_frames) ==
    IF total_frames <= target_frames THEN Range(total_frames)
    ELSE LET step == FDiv(total_frames - 1, target_frames - 1)
         IN  [i \in 1..target_frames |-> FTrunc(FMul(FOfInt(i - 1), step))]

\* create_jueying_sprite: i * (total_frames - 1) / (target_frames - 1)
\* raises ZeroDivisionError (also for 0 / 0) when target_frames is 1
UniformExactRaises(total_frames, target_frames) ==
    target_frames - 1 = 0

\* create_jueying_sprite: indices
UniformExact(total_frames, target_frames) ==
    [i \in 1..target_frames |->
        FTrunc(FDiv((i - 1) * (total_frames - 1), target_frames - 1))]

\* variant: the stride is rounded up to a whole number of frames
StrideCeil(total_frames, target_frames) ==
    [i \in 1..target_frames |->
        (i - 1) * ((total_frames + target_frames - 1) \div target_frames)]

\* create_zhaoyeyushizi_sprite: selected_indices, int(i * total_frames / 48)
StrideFloor(total_frames, target_frames) ==
    [i \in 1..target_frames |-> FTrunc(FDiv((i - 1) * total_frames, target_frames))]

\* variant: the capped prefix is sampled with both endpoints kept
HeadCapEndpoints(n, cap, target_frames) ==
    LET m == Len(Slice(n, 0, cap))
    IN  [i \in 1..target_frames |->
            IF target_frames = 1 THEN 0
            ELSE ((i - 1) * (m - 1)) \div (target_frames - 1)]

\* recreate_baititiwu_sprite: useful_frames = frame_files[:120], then the
\* stride selection over len(useful_frames)
HeadCap(n, cap, target_frames) ==
    StrideFloor(Len(Slice(n, 0, cap)), target_frames)

\* create_smooth_sprite: png_files[START_FRAME:END_FRAME+1]
ExplicitRange(n, start, end) ==
    Slice(n, start, end + 1)

(***************************************************************************)
(* Motion analysis (optimize_frames.py).                                   *)
(***************************************************************************)

\* threshold = np.mean(differences) * 0.3
Threshold(differences) ==
    FMul(FDiv(Sum(differences), Len(differences)), F03)

\* paused_frames: the 0-based indices i with differences[i] < threshold
PausedFrames(differences) ==
    IF differences = << >> THEN << >>
    ELSE LET th == Threshold(differences)
             Test(i) == FLess(FOfInt(differences[i + 1]), th)
         IN  SelectSeq(Range(Len(differences)), Test)

\* variant: a group of exactly 5 paused frames is kept as well
KeepGroupAtLeast5(pause_groups, current_group) ==
    IF Len(current_group) >= 5 THEN Append(pause_groups, current_group)
    ELSE pause_groups

\* variant: only groups of more than 6 paused frames are kept
KeepGroupOver6(pause_groups, current_group) ==
    IF Len(current_group) > 6 THEN Append(pause_groups, current_group)
    ELSE pause_groups

\* the group kept when it has more than 5 frames
KeepGroup(pause_groups, current_group) ==
    IF Len(current_group) > 5 THEN Append(pause_groups, current_group)
    ELSE pause_groups

\* the loop over paused_frames[1:]
RECURSIVE GroupLoop(_, _, _)
GroupLoop(rest, current_group, pause_groups) ==
    IF rest = << >> THEN KeepGroup(pause_groups, current_group)
    ELSE IF Head(rest) = current_group[Len(current_group)] + 1
         THEN GroupLoop(Tail(rest), Append(current_group, Head(rest)), pause_groups)
         ELSE GroupLoop(Tail(rest), <<Head(rest)>>,
                        KeepGroup(pause_groups, current_group))

\* analyze_frames: pause_groups
PauseGroups(differences) ==
    LET paused_frames == PausedFrames(differences)
    IN  IF paused_frames = << >> THEN << >>
        ELSE GroupLoop(Tail(paused_frames), <<Head(paused_frames)>>, << >>)

\* extract_motion_cycle: window_size
window_size == 48

\* sum(differences[i:i+size])
Activity(differences, i, size) ==
    Sum(SubSeq(differences, i + 1, Min(i + size, Len(differences))))

\* the number of iterations of "for i in range(len(differences) - size)"
MotionIterations(differences, size) ==
    IF Len(differences) - size > 0 THEN Len(differences) - size ELSE 0

\* the loop of extract_motion_cycle from iteration i on: best_start
RECURSIVE MotionLoop(_, _, _, _, _)
MotionLoop(differences, size, i, max_activity, start) ==
    IF i >= MotionIterations(differences, size) THEN start
    ELSE LET activity == Activity(differences, i, size)
         IN  IF activity > max_activity
             THEN MotionLoop(differences, size, i + 1, activity, i)
             ELSE MotionLoop(differences, size, i + 1, max_activity, start)

\* extract_motion_cycle: best_start
BestStart(differences, size) ==
    MotionLoop(differences, size, 0, 0, 0)

\* extract_motion_cycle: images[best_start:best_start + window_size]
MotionCycle(n, differences, size) ==
    Slice(n, BestStart(differences, size), BestStart(differences, size) + size)

\* difference signals the analysis is run on: every short signal over DVals,
\* signals around the window size with one active pair of frames, and the
\* 64-frame sequence whose activity lies in frames 40..63
SpikeSignal(len, p) ==
    [j \in 1..len |-> IF j = p THEN 1 ELSE 0]

PeakSignal ==
    [j \in 1..63 |-> IF j >= 41 THEN 1 ELSE 0]

RECURSIVE SeqsOfLen(_, _)
SeqsOfLen(S, n) ==
    IF n = 0 THEN {<< >>}
    ELSE {Append(s, x) : s \in SeqsOfLen(S, n - 1), x \in S}

ShortSignals ==
    UNION {SeqsOfLen(DVals, n) : n \in 0..MaxD}

LongSignals ==
    UNION {{SpikeSignal(len, 1), SpikeSignal(len, len)} :
                len \in window_size..(window_size + MaxTail)}
        \cup {PeakSignal}

\* target_frames of optimize_frames.main: sys.argv[3], 48 by default
RequestedFrames == {24, 48}

(***************************************************************************)
(* Atlas layout.                                                           *)
(***************************************************************************)

\* variant: the row count is rounded down
RowsFloor(total_frames, frames_per_row) ==
    total_frames \div frames_per_row

\* rows = (total_frames + frames_per_row - 1) // frames_per_row
Rows(total_frames, frames_per_row) ==
    (total_frames + frames_per_row - 1) \div frames_per_row

\* create_bailongma_2k: x = col * target_width, y = row * target_height
GridPos(i, frames_per_row, frame_width, frame_height) ==
    <<(i % frames_per_row) * frame_width, (i \div frames_per_row) * frame_height>>

\* variant: the padding is left out of the stride
PaddedPosTight(i, frames_per_row, frame_width, frame_height, padding) ==
    <<(i % frames_per_row) * frame_width, (i \div frames_per_row) * frame_height>>

\* create_sprite_sheet: x = col * (frame_width + padding), y likewise
PaddedPos(i, frames_per_row, frame_width, frame_height, padding) ==
    <<(i % frames_per_row) * (frame_width + padding),
      (i \div frames_per_row) * (frame_height + padding)>>

\* create_sprite_sheet: sprite_width, sprite_height
PaddedCanvas(frames_per_row, nrows, frame_width, frame_height, padding) ==
    <<frame_width * frames_per_row + padding * (frames_per_row - 1),
      frame_height * nrows + padding * (nrows - 1)>>

\* create_bailongma_2k: sprite_width, sprite_height
GridCanvas(frames_per_row, nrows, frame_width, frame_height) ==
    <<frame_width * frames_per_row, frame_height * nrows>>

\* create_bailongma_2k: target_width, target_height, frames_per_row
target_width == 1920
target_height == 1080
frames_per_row_8 == 8

\* create_zhaoyeyushizi_sprite, recreate_baititiwu_sprite: cols, rows
COLS_8 == 8
ROWS_6 == 6

\* recreate_baititiwu_sprite: frame_files[:120], range(48)
head_cap_120 == 120
target_48 == 48

\* create_smooth_sprite: FRAME_WIDTH, FRAME_HEIGHT, COLS, ROWS, SCALE
FRAME_WIDTH == 1920
FRAME_HEIGHT == 1088
COLS == 6
ROWS == 4
scaled_width == FTrunc(FMul(FOfInt(FRAME_WIDTH), F08))
scaled_height == FTrunc(FMul(FOfInt(FRAME_HEIGHT), F08))


(***************************************************************************)
(* Pixels.  A frame is represented by one RGBA pixel (a frame of uniform   *)
(* colour); a cell of the atlas by its top-left pixel.  Frame f of the     *)
(* folder carries its index in the red channel, so that a cell tells which *)
(* frame it holds.                                                         *)
(***************************************************************************)

\* Image.new('RGBA', size, (0, 0, 0, 0))
CanvasFill ==
    <<0, 0, 0, 0>>

\* the alpha values of the source frames: transparent, half, opaque
AlphaVals ==
    {0, 128, 255}

\* the transformed frame of file f in a run whose frames have alpha a
FramePixel(f, a) ==
    <<f % 256, 200, 100, a>>

\* Pillow's DIV255: (tmp = v + 128, ((tmp >> 8) + tmp) >> 8)
Div255(v) ==
    (((v + 128) \div 256) + (v + 128)) \div 256

\* Pillow's BLEND8(mask, in1, in2)
Blend8(mask, in1, in2) ==
    Div255(in1 * (255 - mask) + in2 * mask)

\* sprite_sheet.paste(im, (x, y)): every channel of the box is replaced
PasteCopy(dst, src) ==
    src

\* sprite_sheet.paste(im, (x, y), im): every channel, alpha included, is
\* blended with the canvas, weighted by the source alpha
PasteMasked(dst, src) ==
    [c \in 1..4 |-> Blend8(src[4], dst[c], src[c])]

\* the grid cell whose top-left corner is (x, y)
CellAt(pos, frames_per_row, frame_width, frame_height, padding) ==
    (pos[2] \div (frame_height + padding)) * frames_per_row
        + (pos[1] \div (frame_width + padding))

(***************************************************************************)
(* Input folders.                                                          *)
(***************************************************************************)

\* at most one file of the folder is damaged: <<index, kind>>.  Kind "open":
\* Image.open (or the convert right after it) raises.  Kind "decode": the
\* file is an RGBA image whose header reads but whose data is truncated, so
\* Image.open succeeds and the first resize or paste of it raises.
BadChoices(f) ==
    {<<0 - 1, "none">>} \cup
    {<<j, kind>> : j \in 0..Min(f - 1, MaxBadPos), kind \in {"open", "decode"}}

\* the file indices appended to images by a loading loop that skips a file
\* whose open raises
Loaded(f, bad) ==
    LET Opens(j) == ~(bad[2] = "open" /\ bad[1] = j)
    IN  SelectSeq(Range(f), Opens)

(***************************************************************************)
(* Frame sizes and the padding mode of create_sprite_sheet.                *)
(***************************************************************************)

\* the sizes of a folder: every file has the size given, except at most one
\* file <<index, size>> (index -1: none)
OddChoices(n, size) ==
    {<<0 - 1, size>>} \cup
    {<<j, s>> : j \in OddPositions \cap (0..(n - 1)), s \in OddSizes \ {size}}

\* sizes = [img.size for img in images]
SizesOf(files_seq, size, odd) ==
    [i \in 1..Len(files_seq) |-> IF files_seq[i] = odd[1] THEN odd[2] ELSE size]

\* max(s[0] for s in sizes), max(s[1] for s in sizes)
MaxOf(sizes, c) ==
    CHOOSE m \in {sizes[i][c] : i \in 1..Len(sizes)} :
        \A i \in 1..Len(sizes) : sizes[i][c] <= m

\* len(set(sizes)) > 1
Mixed(sizes) ==
    \E i \in 1..Len(sizes) : sizes[i] # sizes[1]

\* variant: the cell takes the size of the first image
FrameDimsFirst(sizes) ==
    sizes[1]

\* frame_width, frame_height of create_sprite_sheet
FrameDims(sizes) ==
    IF Mixed(sizes) THEN <<MaxOf(sizes, 1), MaxOf(sizes, 2)>> ELSE sizes[1]

\* offset_x, offset_y of an image centred on the (max_width, max_height) canvas
CenterOffset(max_width, max_height, size) ==
    <<(max_width - size[1]) \div 2, (max_height - size[2]) \div 2>>

\* adjusted_images: for every image the size handed to the packer, the
\* offset of the original inside it, and the original size
AdjustedImages(sizes) ==
    [i \in 1..Len(sizes) |->
        IF Mixed(sizes) /\ sizes[i] # FrameDims(sizes)
        THEN [size   |-> FrameDims(sizes),
              offset |-> CenterOffset(FrameDims(sizes)[1], FrameDims(sizes)[2],
                                      sizes[i]),
              inner  |-> sizes[i]]
        ELSE [size |-> sizes[i], offset |-> <<0, 0>>, inner |-> sizes[i]]]

\* the top-left pixel of cell j of the grid lies in the box of the given
\* size pasted at pos (a paste writes its whole box, clipped to the canvas)
Covered(pos, box, j, frames_per_row, frame_width, frame_height, padding) ==
    LET o == PaddedPos(j, frames_per_row, frame_width, frame_height, padding)
    IN  /\ pos[1] <= o[1] /\ o[1] < pos[1] + box[1]
        /\ pos[2] <= o[2] /\ o[2] < pos[2] + box[2]

(***************************************************************************)
(* optimize_sprite_v2.py: every fourth frame of a 16 x 12 atlas is copied  *)
(* into an 8 x 6 atlas.                                                    *)
(***************************************************************************)
ORIGINAL_COLS == 16
ORIGINAL_ROWS == 12
ORIGINAL_FRAME_WIDTH == 960
ORIGINAL_FRAME_HEIGHT == 544
ORIGINAL_TOTAL_FRAMES == 192
NEW_TOTAL_FRAMES == 48
NEW_COLS == 8
NEW_ROWS == 6
FRAME_SKIP == 4

\* variant: range(0, ORIGINAL_TOTAL_FRAMES), every frame in turn
RepackRangeEvery ==
    [j \in 1..ORIGINAL_TOTAL_FRAMES |-> j - 1]

\* range(0, ORIGINAL_TOTAL_FRAMES, FRAME_SKIP)
RepackRange ==
    [j \in 1..((ORIGINAL_TOTAL_FRAMES + FRAME_SKIP - 1) \div FRAME_SKIP)
        |-> (j - 1) * FRAME_SKIP]

\* the values of i for which the loop body runs: the loop breaks once
\* frame_index reaches NEW_TOTAL_FRAMES
RepackIndices ==
    SubSeq(RepackRange, 1, Min(Len(RepackRange), NEW_TOTAL_FRAMES))

\* the box (left, upper, right, lower) cropped from the source atlas for frame i
CropBox(i) ==
    <<(i % ORIGINAL_COLS) * ORIGINAL_FRAME_WIDTH,
      (i \div ORIGINAL_COLS) * ORIGINAL_FRAME_HEIGHT,
      (i % ORIGINAL_COLS) * ORIGINAL_FRAME_WIDTH + ORIGINAL_FRAME_WIDTH,
      (i \div ORIGINAL_COLS) * ORIGINAL_FRAME_HEIGHT + ORIGINAL_FRAME_HEIGHT>>

\* create_zhahuangfeidian_sprite: frames_per_row
frames_per_row_11 == 11

\* merge_sprite: FRAME_WIDTH, FRAME_HEIGHT, COLS, ROWS, TOTAL_FRAMES
MERGE_FRAME_WIDTH == 1920
MERGE_FRAME_HEIGHT == 1088
MERGE_COLS == 16
MERGE_ROWS == 12
MERGE_TOTAL_FRAMES == 192

\* optimize_wuzhui: ORIGINAL_COLS, ORIGINAL_ROWS, TOTAL_FRAMES,
\* NEW_FRAME_WIDTH, NEW_FRAME_HEIGHT
WUZHUI_COLS == 8
WUZHUI_ROWS == 21
WUZHUI_TOTAL_FRAMES == 164
NEW_FRAME_WIDTH == 1920
NEW_FRAME_HEIGHT == 1080

\* optimize_sprite: the grid of the atlas it prints the frame size for
SPRITE_COLS == 16
SPRITE_ROWS == 12

\* analyze_frames: the number of frames analyze_sequence reads at most
SEQUENCE_FRAMES == 60


(***************************************************************************)
(* State of a run.                                                         *)
(***************************************************************************)
VARIABLES
    pc,           \* "start", "analyzed", "selected", "packing", "scanning",
                  \* "done", "failed"
    script,       \* the script that runs
    N,            \* number of frames loaded (total_frames, len(png_files))
    K,            \* target_frames / TOTAL_FRAMES: the frame count asked for
    head_cap,     \* the prefix length of the head-cap scripts (120 there)
    START_FRAME,  \* create_smooth_sprite
    END_FRAME,    \* create_smooth_sprite
    D,            \* differences
    groups,       \* pause_groups
    best_start,   \* extract_motion_cycle
    sel,          \* the selected frame indices, in order
    err,          \* the exception or early return that ended the run, "" if none
    cols,         \* frames_per_row / cols / COLS
    rows,         \* rows / ROWS
    pad,          \* padding
    cell,         \* <<frame_width, frame_height>> of a cell
    canvas,       \* <<sprite_width, sprite_height>>
    placed,       \* the (x, y) of each iteration of the paste loop, in order
    meta,         \* the parameters printed for the animator
    files,        \* number of files of an accepted extension in the folder
    bad_file,     \* index of the damaged file, -1 if none
    bad_kind,     \* "none", "open" or "decode"
    images,       \* the file indices held in the images list
    sizes,        \* img.size of every entry of images, where the run reads it
    adjusted,     \* adjusted_images of create_sprite_sheet
    open_frames,  \* Image.open results not closed so far
    alpha,        \* the alpha of the source frames
    atlas,        \* the top-left pixel of every grid cell of sprite_sheet,
                  \* row by row
    pasted,       \* for each iteration of the paste loop: did it paste
    io,           \* the kinds of filesystem I/O done so far
    exit_code     \* the exit status of the process, -1 while it runs

vars == <<pc, script, N, K, head_cap, START_FRAME, END_FRAME, D, groups,
          best_start, sel, err, cols, rows, pad, cell, canvas, placed, meta,
          files, bad_file, bad_kind, images, sizes, adjusted, open_frames,
          alpha, atlas, pasted, io, exit_code>>

inputVars == <<head_cap, START_FRAME, END_FRAME>>
motionVars == <<D, groups, best_start>>
layoutVars == <<cols, rows, pad, cell, canvas>>
folderVars == <<files, bad_file, bad_kind>>
pixelVars == <<alpha, atlas, pasted>>
sizeVars == <<sizes, adjusted>>

NoMeta == [frameWidth |-> 0, frameHeight |-> 0, frameCount |-> 0, framesPerRow |-> 0]

Init ==
    /\ pc = "start"
    /\ script = ""
    /\ N = 0 /\ K = 0 /\ head_cap = 0 /\ START_FRAME = 0 /\ END_FRAME = 0
    /\ D = << >> /\ groups = << >> /\ best_start = 0
    /\ sel = << >> /\ err = ""
    /\ cols = 0 /\ rows = 0 /\ pad = 0
    /\ cell = <<0, 0>> /\ canvas = <<0, 0>>
    /\ placed = << >>
    /\ meta = NoMeta
    /\ files = 0 /\ bad_file = 0 - 1 /\ bad_kind = "none"
    /\ images = << >> /\ open_frames = 0
    /\ sizes = << >> /\ adjusted = << >>
    /\ alpha = 0 /\ atlas = << >> /\ pasted = << >>
    /\ io = {}
    /\ exit_code = 0 - 1

\* the end of the selection step: a list, or the exception raised (an
\* uncaught exception ends the process with status 1)
Selected(raises, indices) ==
    IF raises
    THEN pc' = "failed" /\ err' = "ZeroDivisionError" /\ sel' = << >>
         /\ exit_code' = 1
    ELSE pc' = "selected" /\ err' = "" /\ sel' = indices
         /\ exit_code' = exit_code

\* if not images: print, return False (the process then ends with status 0)
NoFrames ==
    pc' = "failed" /\ err' = "NoFrames" /\ sel' = << >> /\ exit_code' = 0

\* the folder with its damaged file, as the run finds it
Folder(f, bad) ==
    files' = f /\ bad_file' = bad[1] /\ bad_kind' = bad[2]

\* the scripts that open every file before they select
PreloadScripts ==
    {"create_bailongma_2k", "create_bailongma_sprite", "create_sprite_sheet",
     "create_zhahuangfeidian_sprite", "optimize_frames"}

\* the scripts whose __main__ tests os.path.exists(image_folder) first
InputMissingScripts ==
    {"create_bailongma_2k", "create_bailongma_sprite", "create_sprite_sheet"}

\* the scripts whose loader returns False when it has loaded no frame
NoFramesScripts ==
    InputMissingScripts \cup {"create_zhahuangfeidian_sprite"}

\* the I/O done before the folder is listed
FirstIO(s) ==
    IF s \in InputMissingScripts THEN {"stat"} ELSE {}

\* frames_per_row and padding of create_sprite_sheet: int(sys.argv[3]) and
\* int(sys.argv[4]), read by main before anything else and taken as given;
\* create_zhahuangfeidian_sprite has no arguments
ArgCols(s) ==
    IF s = "create_sprite_sheet" THEN (0 - 1)..MaxCols ELSE {0}

ArgPads(s) ==
    IF s = "create_sprite_sheet" THEN 0..MaxPad ELSE {0}

\* the folder does not exist, or holds no file of an accepted extension:
\* create_bailongma_2k and create_bailongma_sprite exit 1 when the folder is
\* missing, create_sprite_sheet returns; all return False on an empty folder
InputMissing ==
    /\ pc = "start"
    /\ \E s \in NoFramesScripts, e \in {"FolderMissing", "NoFrames"} :
        /\ e = "FolderMissing" => s \in InputMissingScripts
        /\ script' = s
        /\ err' = e
        /\ io' = IF e = "NoFrames" THEN FirstIO(s) \cup {"listdir"}
                 ELSE FirstIO(s)
        /\ exit_code' = IF s # "create_sprite_sheet" /\ e = "FolderMissing"
                        THEN 1 ELSE 0
        /\ cols' \in ArgCols(s) /\ pad' \in ArgPads(s)
    /\ pc' = "failed"
    /\ UNCHANGED <<N, K, inputVars, motionVars, sel, rows, cell, canvas,
                   sizeVars, placed, meta, folderVars, images, open_frames,
                   pixelVars>>

\* main of create_sprite_sheet and of optimize_frames without arguments:
\* print the usage, return
Usage ==
    /\ pc = "start"
    /\ script' \in {"create_sprite_sheet", "optimize_frames"}
    /\ err' = "Usage"
    /\ exit_code' = 0
    /\ pc' = "failed"
    /\ UNCHANGED <<N, K, inputVars, motionVars, sel, layoutVars, sizeVars,
                   placed, meta, folderVars, images, open_frames, pixelVars,
                   io>>

\* create_bailongma_2k.py: load, then uniform selection with the N <= K guard
SelectBailongma2k ==
    /\ pc = "start"
    /\ \E f \in 1..MaxN, k \in 1..MaxK :
        \E bad \in BadChoices(f) :
            /\ script' = "create_bailongma_2k"
            /\ Folder(f, bad)
            /\ images' = Loaded(f, bad)
            /\ open_frames' = Len(Loaded(f, bad))
            /\ N' = Len(Loaded(f, bad)) /\ K' = k
            /\ IF Len(Loaded(f, bad)) = 0
               THEN NoFrames
               ELSE Selected(UniformStepRaises(Len(Loaded(f, bad)), k),
                             UniformStep(Len(Loaded(f, bad)), k))
    /\ io' = {"stat", "listdir", "open"}
    /\ UNCHANGED <<inputVars, motionVars, layoutVars, sizeVars, placed, meta,
                   pixelVars>>

\* create_jueying_sprite.py / optimize_zhahuangfeidian.py: uniform selection
\* over the file names
SelectJueying ==
    /\ pc = "start"
    /\ \E n \in 1..MaxN, k \in 1..MaxK :
        \E bad \in BadChoices(n) :
            /\ script' = "create_jueying_sprite"
            /\ Folder(n, bad)
            /\ N' = n /\ K' = k
            /\ Selected(UniformExactRaises(n, k), UniformExact(n, k))
    /\ io' = {"listdir"}
    /\ UNCHANGED <<inputVars, motionVars, layoutVars, sizeVars, placed, meta,
                   images, open_frames, pixelVars>>

\* create_zhaoyeyushizi_sprite.py: stride selection over all frames
SelectZhaoyeyushizi ==
    /\ pc = "start"
    /\ \E n \in 1..MaxN, k \in 1..MaxK :
        /\ script' = "create_zhaoyeyushizi_sprite"
        /\ files' = n
        /\ N' = n /\ K' = k
        /\ Selected(FALSE, StrideFloor(n, k))
    /\ io' = {"listdir"}
    /\ UNCHANGED <<inputVars, motionVars, layoutVars, sizeVars, placed, meta,
                   bad_file, bad_kind, images, open_frames, pixelVars>>

\* the runs of the head-cap scripts: <<len(frame_files), cap, frame count>>.
\* The cap exceeds the frame count, as 120 exceeds 48 in the scripts; among
\* the runs, the scripts' own 120 and 48 on a folder longer than the cap
HeadCapRuns ==
    {<<n, m, k>> \in (1..MaxCapN) \X (1..MaxCapN) \X (1..MaxCapN) : k < m}
        \cup {<<head_cap_120 + 10, head_cap_120, target_48>>}

\* recreate_baititiwu_sprite.py / recreate_shifachi_sprite.py
SelectHeadCap ==
    /\ pc = "start"
    /\ \E run \in HeadCapRuns :
        /\ script' = "recreate_baititiwu_sprite"
        /\ files' = run[1]
        /\ N' = run[1] /\ K' = run[3] /\ head_cap' = run[2]
        /\ Selected(FALSE, HeadCap(run[1], run[2], run[3]))
    /\ io' = {"listdir"}
    /\ UNCHANGED <<START_FRAME, END_FRAME, motionVars, layoutVars, sizeVars,
                   placed, meta, bad_file, bad_kind, images, open_frames,
                   pixelVars>>

\* the runs of create_smooth_sprite: <<len(png_files), START_FRAME, END_FRAME>>,
\* among them the script's own range 40..63 on a folder that holds it
SmoothRuns ==
    {<<n, s, e>> \in (1..MaxK) \X (0..MaxStart) \X (0..MaxEnd) : s <= e}
        \cup {<<64, 40, 63>>}

\* create_smooth_sprite.py: the frames START_FRAME..END_FRAME
SelectSmooth ==
    /\ pc = "start"
    /\ \E run \in SmoothRuns :
        \E bad \in BadChoices(run[1]) :
            /\ script' = "create_smooth_sprite"
            /\ Folder(run[1], bad)
            /\ N' = run[1] /\ K' = run[3] - run[2] + 1
            /\ START_FRAME' = run[2] /\ END_FRAME' = run[3]
            /\ Selected(FALSE, ExplicitRange(run[1], run[2], run[3]))
    /\ io' = {"listdir"}
    /\ UNCHANGED <<head_cap, motionVars, layoutVars, sizeVars, placed, meta,
                   images, open_frames, pixelVars>>

\* merge_sprite.py: the first TOTAL_FRAMES files of the folder
SelectMerge ==
    /\ pc = "start"
    /\ \E n \in 0..MaxCapN :
        \E bad \in BadChoices(n) :
            /\ script' = "merge_sprite"
            /\ Folder(n, bad)
            /\ N' = n /\ K' = MERGE_TOTAL_FRAMES
            /\ Selected(FALSE, Slice(n, 0, MERGE_TOTAL_FRAMES))
    /\ io' = {"listdir"}
    /\ UNCHANGED <<inputVars, motionVars, layoutVars, sizeVars, placed, meta,
                   images, open_frames, pixelVars>>

\* the numbers of files in the folders of these two scripts; for the fixed
\* 11 frames per row, also a folder that fills more than one row
SheetFolders(s) ==
    IF s = "create_sprite_sheet" THEN 1..MaxCapN
    ELSE (1..MaxCapN) \cup {frames_per_row_11 + 1}

\* create_sprite_sheet.py, create_zhahuangfeidian_sprite.py: every frame
\* the loader could open, in order
SelectSpriteSheet ==
    /\ pc = "start"
    /\ \E s \in {"create_sprite_sheet", "create_zhahuangfeidian_sprite"},
          size \in FrameSizes :
        \E n \in SheetFolders(s) :
          \E bad \in BadChoices(n), odd \in OddChoices(n, size) :
            /\ script' = s
            /\ Folder(n, bad)
            /\ images' = Loaded(n, bad)
            /\ sizes' = SizesOf(Loaded(n, bad), size, odd)
            /\ open_frames' = Len(Loaded(n, bad))
            /\ N' = Len(Loaded(n, bad)) /\ K' = Len(Loaded(n, bad))
            /\ IF Len(Loaded(n, bad)) = 0
               THEN NoFrames
               ELSE Selected(FALSE, Range(Len(Loaded(n, bad))))
            /\ io' = FirstIO(s) \cup {"listdir", "open"}
            /\ cols' \in ArgCols(s) /\ pad' \in ArgPads(s)
    /\ UNCHANGED <<inputVars, motionVars, rows, cell, canvas, adjusted,
                   placed, meta, pixelVars>>

\* create_bailongma_sprite.py: load, then uniform selection with the N <= K
\* guard
SelectBailongmaSprite ==
    /\ pc = "start"
    /\ \E n \in 1..MaxCapN, k \in 1..MaxCapN :
        \E bad \in BadChoices(n) :
            /\ script' = "create_bailongma_sprite"
            /\ Folder(n, bad)
            /\ images' = Loaded(n, bad)
            /\ open_frames' = Len(Loaded(n, bad))
            /\ N' = Len(Loaded(n, bad)) /\ K' = k
            /\ IF Len(Loaded(n, bad)) = 0
               THEN NoFrames
               ELSE Selected(UniformStepRaises(Len(Loaded(n, bad)), k),
                             UniformStep(Len(Loaded(n, bad)), k))
    /\ io' = {"stat", "listdir", "open"}
    /\ UNCHANGED <<inputVars, motionVars, layoutVars, sizeVars, placed, meta,
                   pixelVars>>

\* optimize_frames.main: analyze_frames on a folder of Len(d) + 1 frames, or
\* of none (the loader has no try: the files are taken to be intact)
AnalyzeFrames ==
    /\ pc = "start"
    /\ \E d \in ShortSignals \cup LongSignals, k \in RequestedFrames :
        \E f \in (IF d = << >> THEN {0, 1} ELSE {Len(d) + 1}) :
            /\ script' = "optimize_frames"
            /\ files' = f
            /\ images' = Range(f)
            /\ open_frames' = f
            /\ N' = f /\ K' = k
            /\ D' = d
            /\ groups' = PauseGroups(d)
            /\ io' = IF f = 0 THEN {"listdir"} ELSE {"listdir", "open"}
    /\ pc' = "analyzed"
    /\ UNCHANGED <<inputVars, best_start, sel, err, layoutVars, sizeVars,
                   placed, meta, bad_file, bad_kind, pixelVars, exit_code>>

\* optimize_frames.main: extract_motion_cycle
ExtractMotionCycle ==
    /\ pc = "analyzed"
    /\ best_start' = BestStart(D, window_size)
    /\ sel' = MotionCycle(N, D, window_size)
    /\ pc' = "selected"
    /\ UNCHANGED <<script, N, K, inputVars, D, groups, err, layoutVars,
                   sizeVars, placed, meta, folderVars, images, open_frames,
                   pixelVars, io, exit_code>>


\* Image.new('RGBA', (sprite_width, sprite_height), (0, 0, 0, 0)) for a grid
\* of nrows x ncols cells, and the alpha of the frames that will be pasted
NewCanvas(nrows, ncols) ==
    /\ atlas' = [j \in 1..(nrows * ncols) |-> CanvasFill]
    /\ alpha' \in AlphaVals
    /\ pasted' = << >>

\* the canvas of a script that resizes every frame to a fixed target size
LayoutBailongma2k ==
    /\ pc = "selected" /\ script = "create_bailongma_2k"
    /\ cols' = frames_per_row_8
    /\ rows' = Rows(Len(sel), frames_per_row_8)
    /\ pad' = 0
    /\ cell' = <<target_width, target_height>>
    /\ canvas' = GridCanvas(frames_per_row_8, Rows(Len(sel), frames_per_row_8),
                            target_width, target_height)
    /\ NewCanvas(Rows(Len(sel), frames_per_row_8), frames_per_row_8)
    /\ pc' = "packing"
    /\ UNCHANGED <<script, N, K, inputVars, motionVars, sel, err, placed, meta,
                   folderVars, images, sizeVars, open_frames, io, exit_code>>

\* the position in indices of the first file whose Image.open raises, 0 if none
FirstBadOpen(indices) ==
    IF \E i \in 1..Len(indices) : bad_kind = "open" /\ indices[i] = bad_file
    THEN CHOOSE i \in 1..Len(indices) :
            /\ indices[i] = bad_file
            /\ \A h \in 1..(i - 1) : indices[h] # bad_file
    ELSE 0

\* create_jueying_sprite: open every selected file (no try), then cell = size
\* of the first image and rows from target_frames
LayoutJueying ==
    /\ pc = "selected" /\ script = "create_jueying_sprite"
    /\ io' = io \cup {"open"}
    /\ IF FirstBadOpen(sel) > 0
       THEN /\ pc' = "failed" /\ err' = "UnidentifiedImageError"
            /\ exit_code' = 1
            /\ open_frames' = FirstBadOpen(sel) - 1
            /\ images' = SubSeq(sel, 1, FirstBadOpen(sel) - 1)
            /\ UNCHANGED <<layoutVars, pixelVars>>
       ELSE /\ \E size \in FrameSizes :
                /\ cell' = size
                /\ canvas' = GridCanvas(frames_per_row_8, Rows(K, frames_per_row_8),
                                        size[1], size[2])
            /\ cols' = frames_per_row_8
            /\ rows' = Rows(K, frames_per_row_8)
            /\ pad' = 0
            /\ images' = sel
            /\ open_frames' = Len(sel)
            /\ NewCanvas(Rows(K, frames_per_row_8), frames_per_row_8)
            /\ pc' = "packing"
            /\ UNCHANGED <<err, exit_code>>
    /\ UNCHANGED <<script, N, K, inputVars, motionVars, sel, placed, meta,
                   folderVars, sizeVars>>

\* create_zhaoyeyushizi_sprite, recreate_baititiwu_sprite: the first selected
\* file is opened for its size (and not closed); a fixed 8 x 6 grid
LayoutFixedGrid ==
    /\ pc = "selected"
    /\ script \in {"create_zhaoyeyushizi_sprite", "recreate_baititiwu_sprite"}
    /\ \E size \in FrameSizes :
        /\ cell' = size
        /\ canvas' = GridCanvas(COLS_8, ROWS_6, size[1], size[2])
    /\ cols' = COLS_8
    /\ rows' = ROWS_6
    /\ pad' = 0
    /\ open_frames' = open_frames + 1
    /\ io' = io \cup {"open"}
    /\ NewCanvas(ROWS_6, COLS_8)
    /\ pc' = "packing"
    /\ UNCHANGED <<script, N, K, inputVars, motionVars, sel, err, placed, meta,
                   folderVars, images, sizeVars, exit_code>>

\* create_smooth_sprite: a fixed 6 x 4 grid of scaled cells
LayoutSmooth ==
    /\ pc = "selected" /\ script = "create_smooth_sprite"
    /\ cell' = <<scaled_width, scaled_height>>
    /\ canvas' = GridCanvas(COLS, ROWS, scaled_width, scaled_height)
    /\ cols' = COLS
    /\ rows' = ROWS
    /\ pad' = 0
    /\ NewCanvas(ROWS, COLS)
    /\ pc' = "packing"
    /\ UNCHANGED <<script, N, K, inputVars, motionVars, sel, err, placed, meta,
                   folderVars, images, sizeVars, open_frames, io, exit_code>>

\* merge_sprite: a fixed 16 x 12 grid of cells of the frame size
LayoutMerge ==
    /\ pc = "selected" /\ script = "merge_sprite"
    /\ cell' = <<MERGE_FRAME_WIDTH, MERGE_FRAME_HEIGHT>>
    /\ canvas' = GridCanvas(MERGE_COLS, MERGE_ROWS, MERGE_FRAME_WIDTH,
                            MERGE_FRAME_HEIGHT)
    /\ cols' = MERGE_COLS
    /\ rows' = MERGE_ROWS
    /\ pad' = 0
    /\ NewCanvas(MERGE_ROWS, MERGE_COLS)
    /\ pc' = "packing"
    /\ UNCHANGED <<script, N, K, inputVars, motionVars, sel, err, placed, meta,
                   folderVars, images, sizeVars, open_frames, io, exit_code>>

\* the position in images of the frame whose pixels cannot be decoded and
\* that the adjustment pastes on a new canvas, 0 if there is none
BadAdjust(imgs, szs) ==
    IF /\ bad_kind = "decode"
       /\ Mixed(szs)
       /\ \E i \in 1..Len(imgs) : imgs[i] = bad_file /\ szs[i] # FrameDims(szs)
    THEN CHOOSE i \in 1..Len(imgs) : imgs[i] = bad_file
    ELSE 0

\* frames_per_row and padding in the packer: the arguments of
\* create_sprite_sheet; 11 and none in create_zhahuangfeidian_sprite
ColsOf(s) ==
    IF s = "create_sprite_sheet" THEN cols ELSE frames_per_row_11

PadsOf(s) ==
    IF s = "create_sprite_sheet" THEN pad ELSE 0

\* a // b of Python for b < 0
FloorDivNeg(a, b) ==
    (0 - a) \div (0 - b)

\* create_sprite_sheet, create_zhahuangfeidian_sprite: frame_width and
\* frame_height, the adjustment of the sizes, then the canvas.  The cell size
\* is assigned before anything can raise: a frame that cannot be decoded
\* raises in the adjustment, frames_per_row = 0 at
\* rows = ... // frames_per_row, frames_per_row < 0 at Image.new, whose width
\* is negative
LayoutSpriteSheet ==
    /\ pc = "selected"
    /\ script \in {"create_sprite_sheet", "create_zhahuangfeidian_sprite"}
    /\ cell' = FrameDims(sizes)
    /\ IF BadAdjust(images, sizes) > 0
       THEN /\ pc' = "failed" /\ err' = "OSError" /\ exit_code' = 1
            /\ adjusted' = SubSeq(AdjustedImages(sizes), 1,
                                  BadAdjust(images, sizes) - 1)
            /\ UNCHANGED <<cols, rows, pad, canvas, pixelVars>>
       ELSE /\ adjusted' = AdjustedImages(sizes)
            /\ LET c == ColsOf(script)
                   p == PadsOf(script)
               IN
                CASE c = 0 ->
                        /\ pc' = "failed" /\ err' = "ZeroDivisionError"
                        /\ exit_code' = 1
                        /\ cols' = c /\ pad' = p
                        /\ UNCHANGED <<rows, canvas, pixelVars>>
                  [] c < 0 ->
                        /\ pc' = "failed" /\ err' = "ValueError"
                        /\ exit_code' = 1
                        /\ cols' = c /\ pad' = p
                        /\ rows' = FloorDivNeg(Len(sel) + c - 1, c)
                        /\ canvas' = PaddedCanvas(c,
                                        FloorDivNeg(Len(sel) + c - 1, c),
                                        FrameDims(sizes)[1],
                                        FrameDims(sizes)[2], p)
                        /\ UNCHANGED pixelVars
                  [] OTHER ->
                        /\ cols' = c
                        /\ rows' = Rows(Len(sel), c)
                        /\ pad' = p
                        /\ canvas' = PaddedCanvas(c, Rows(Len(sel), c),
                                                  FrameDims(sizes)[1],
                                                  FrameDims(sizes)[2], p)
                        /\ NewCanvas(Rows(Len(sel), c), c)
                        /\ pc' = "packing"
                        /\ UNCHANGED <<err, exit_code>>
    /\ UNCHANGED <<script, N, K, inputVars, motionVars, sel, placed, meta,
                   folderVars, images, sizes, open_frames, io>>

\* create_bailongma_sprite: the sizes of the loaded images are read here;
\* the cell is the size of the first selected frame
LayoutFirstFrame ==
    /\ pc = "selected" /\ script = "create_bailongma_sprite"
    /\ \E size \in FrameSizes :
        \E odd \in OddChoices(files, size) :
            /\ sizes' = SizesOf(images, size, odd)
            /\ cell' = SizesOf(images, size, odd)[sel[1] + 1]
            /\ canvas' = GridCanvas(frames_per_row_8,
                                    Rows(Len(sel), frames_per_row_8),
                                    SizesOf(images, size, odd)[sel[1] + 1][1],
                                    SizesOf(images, size, odd)[sel[1] + 1][2])
    /\ cols' = frames_per_row_8
    /\ rows' = Rows(Len(sel), frames_per_row_8)
    /\ pad' = 0
    /\ NewCanvas(Rows(Len(sel), frames_per_row_8), frames_per_row_8)
    /\ pc' = "packing"
    /\ UNCHANGED <<script, N, K, inputVars, motionVars, sel, err, placed, meta,
                   folderVars, images, adjusted, open_frames, io, exit_code>>

\* the two scripts that copy the frames of one atlas into another:
\* optimize_sprite_v2 copies every fourth frame of a 16 x 12 atlas into an
\* 8 x 6 atlas, optimize_wuzhui every frame of an 8 x 21 atlas, resized
RepackPlan(s) ==
    IF s = "optimize_sprite_v2"
    THEN [total   |-> ORIGINAL_TOTAL_FRAMES,
          count   |-> NEW_TOTAL_FRAMES,
          indices |-> RepackIndices,
          cols    |-> NEW_COLS,
          rows    |-> NEW_ROWS,
          cell    |-> <<ORIGINAL_FRAME_WIDTH, ORIGINAL_FRAME_HEIGHT>>]
    ELSE [total   |-> WUZHUI_TOTAL_FRAMES,
          count   |-> WUZHUI_TOTAL_FRAMES,
          indices |-> Range(WUZHUI_TOTAL_FRAMES),
          cols    |-> WUZHUI_COLS,
          rows    |-> WUZHUI_ROWS,
          cell    |-> <<NEW_FRAME_WIDTH, NEW_FRAME_HEIGHT>>]

\* optimize_sprite_v2.py, optimize_wuzhui.py: read the size of the source
\* file, open it, create the canvas and enter the loop
StartRepack ==
    /\ pc = "start"
    /\ \E s \in {"optimize_sprite_v2", "optimize_wuzhui"} :
        /\ script' = s
        /\ N' = RepackPlan(s).total /\ K' = RepackPlan(s).count
        /\ sel' = RepackPlan(s).indices
        /\ cols' = RepackPlan(s).cols
        /\ rows' = RepackPlan(s).rows
        /\ cell' = RepackPlan(s).cell
        /\ canvas' = GridCanvas(RepackPlan(s).cols, RepackPlan(s).rows,
                                RepackPlan(s).cell[1], RepackPlan(s).cell[2])
        /\ NewCanvas(RepackPlan(s).rows, RepackPlan(s).cols)
    /\ pad' = 0
    /\ open_frames' = 1
    /\ io' = {"stat", "open"}
    /\ pc' = "packing"
    /\ UNCHANGED <<inputVars, motionVars, err, placed, meta, folderVars, images,
                   sizeVars, exit_code>>

\* optimize_frames.create_optimized_sprite_sheet, called with frames_per_row=8;
\* selected_images[0] raises IndexError when the folder held no frame
LayoutOptimized ==
    /\ pc = "selected" /\ script = "optimize_frames"
    /\ IF Len(sel) = 0
       THEN /\ pc' = "failed" /\ err' = "IndexError" /\ exit_code' = 1
            /\ UNCHANGED <<layoutVars, pixelVars>>
       ELSE /\ \E size \in FrameSizes :
                /\ cell' = size
                /\ canvas' = GridCanvas(frames_per_row_8,
                                        Rows(Len(sel), frames_per_row_8),
                                        size[1], size[2])
            /\ cols' = frames_per_row_8
            /\ rows' = Rows(Len(sel), frames_per_row_8)
            /\ pad' = 0
            /\ NewCanvas(Rows(Len(sel), frames_per_row_8), frames_per_row_8)
            /\ pc' = "packing"
            /\ UNCHANGED <<err, exit_code>>
    /\ UNCHANGED <<script, N, K, inputVars, motionVars, sel, placed, meta,
                   folderVars, images, sizeVars, open_frames, io>>

\* the scripts whose paste loop runs over the adjusted images
AdjustScripts ==
    {"create_sprite_sheet", "create_zhahuangfeidian_sprite"}

\* the file pasted by iteration i (from 1) of the paste loop
FileOf(i) ==
    IF script \in PreloadScripts THEN images[sel[i] + 1] ELSE sel[i]

\* the size of the image that iteration i (from 1) of the paste loop pastes:
\* the adjusted image, the image as loaded, or an image of the cell size
HandedSize(i) ==
    CASE script \in AdjustScripts -> adjusted[sel[i] + 1].size
      [] script = "create_bailongma_sprite" -> sizes[sel[i] + 1]
      [] OTHER -> cell

\* the top-left pixel of that image: transparent where the adjustment has
\* moved the frame away from the corner of its canvas
HandedPixel(i) ==
    IF script \in AdjustScripts /\ adjusted[sel[i] + 1].offset # <<0, 0>>
    THEN CanvasFill
    ELSE FramePixel(FileOf(i), alpha)

\* the scripts that open each frame inside the paste loop and never close it
OpenInLoopScripts ==
    {"create_zhaoyeyushizi_sprite", "recreate_baititiwu_sprite"}

\* the scripts whose loop body is a try that opens, pastes and closes
TryScripts ==
    {"create_smooth_sprite", "merge_sprite"}

\* one iteration of the paste loop: frame number Len(placed) of the selection
Paste ==
    /\ pc = "packing"
    /\ Len(placed) < Len(sel)
    /\ LET f   == FileOf(Len(placed) + 1)
           pos == IF script = "create_sprite_sheet"
                  THEN PaddedPos(Len(placed), cols, cell[1], cell[2], pad)
                  ELSE GridPos(Len(placed), cols, cell[1], cell[2])
           src == HandedPixel(Len(placed) + 1)
           box == HandedSize(Len(placed) + 1)
       IN  CASE script \in TryScripts ->
                \* try: open, (convert, resize,) paste, close;
                \* except: print and go on
                /\ placed' = Append(placed, pos)
                /\ io' = io \cup {"open"}
                /\ IF f = bad_file
                   THEN /\ atlas' = atlas
                        /\ pasted' = Append(pasted, FALSE)
                        /\ open_frames' = open_frames
                                + (IF bad_kind = "decode" THEN 1 ELSE 0)
                   ELSE /\ atlas' = [c \in 1..Len(atlas) |->
                                        IF Covered(pos, box, c - 1, cols,
                                                   cell[1], cell[2], pad)
                                        THEN IF script = "merge_sprite"
                                             THEN PasteCopy(atlas[c], src)
                                             ELSE PasteMasked(atlas[c], src)
                                        ELSE atlas[c]]
                        /\ pasted' = Append(pasted, TRUE)
                        /\ open_frames' = open_frames
                /\ UNCHANGED <<pc, err, exit_code>>
             [] script \notin TryScripts
                    /\ f = bad_file /\ bad_kind = "decode" ->
                \* resize / paste of a truncated image raises, uncaught
                /\ pc' = "failed" /\ err' = "OSError" /\ exit_code' = 1
                /\ UNCHANGED <<placed, atlas, pasted, open_frames, io>>
             [] OTHER ->
                /\ placed' = Append(placed, pos)
                /\ atlas' = [c \in 1..Len(atlas) |->
                                IF Covered(pos, box, c - 1, cols, cell[1],
                                           cell[2], pad)
                                THEN PasteCopy(atlas[c], src) ELSE atlas[c]]
                /\ pasted' = Append(pasted, TRUE)
                /\ open_frames' = open_frames
                        + (IF script \in OpenInLoopScripts THEN 1 ELSE 0)
                /\ io' = IF script \in OpenInLoopScripts
                         THEN io \cup {"open"} ELSE io
                /\ UNCHANGED <<pc, err, exit_code>>
    /\ UNCHANGED <<script, N, K, inputVars, motionVars, sel, layoutVars,
                   sizeVars, meta, folderVars, images, alpha>>

\* frameCount as printed: the number of selected frames, or the count asked for
PrintedCount ==
    IF script \in {"create_bailongma_2k", "create_bailongma_sprite",
                    "create_sprite_sheet", "create_zhahuangfeidian_sprite",
                    "optimize_frames"}
    THEN Len(sel) ELSE K

\* save the atlas and read the size of the file written.  meta: the
\* animator's parameters as printed or, for a script that prints none
\* (create_jueying_sprite, recreate_baititiwu_sprite), the parameters its
\* layout was computed from
Emit ==
    /\ pc = "packing"
    /\ Len(placed) = Len(sel)
    /\ meta' = [frameWidth |-> cell[1], frameHeight |-> cell[2],
                frameCount |-> PrintedCount, framesPerRow |-> cols]
    /\ io' = io \cup {"write", "stat"}
    /\ exit_code' = 0
    /\ pc' = "done"
    /\ UNCHANGED <<script, N, K, inputVars, motionVars, sel, err, layoutVars,
                   sizeVars, placed, folderVars, images, open_frames,
                   pixelVars>>

\* the sizes (w, h) of the atlas a script re-saves
AtlasSizes ==
    {<<1, 1>>} \cup
    {<<32 * w + a, 24 * h>> : w \in 1..MaxCell, h \in 1..MaxCell, a \in {0, 1}}

\* optimize_muwang.optimize_sprite: open the atlas, save it over itself
OptimizeMuwang ==
    /\ pc = "start"
    /\ script' = "optimize_muwang"
    /\ canvas' \in AtlasSizes
    /\ open_frames' = 1
    /\ io' = {"open", "stat", "write"}
    /\ exit_code' = 0
    /\ pc' = "done"
    /\ UNCHANGED <<N, K, inputVars, motionVars, sel, err, cols, rows, pad,
                   cell, placed, meta, folderVars, images, sizeVars,
                   pixelVars>>

\* new_width = int(original_width * SCALE)
Scaled(v) ==
    FTrunc(FMul(FOfInt(v), F05))

\* optimize_sprite.optimize_sprite: resize the atlas to half its size and
\* save it; the size printed for a frame is new_width // 16, new_height // 12;
\* a resize to a width or a height of 0 raises
OptimizeSprite ==
    /\ pc = "start"
    /\ script' = "optimize_sprite"
    /\ \E size \in AtlasSizes :
        IF Scaled(size[1]) = 0 \/ Scaled(size[2]) = 0
        THEN /\ pc' = "failed" /\ err' = "ValueError" /\ exit_code' = 1
             /\ io' = {"stat", "open"}
             /\ UNCHANGED <<cols, rows, cell, canvas>>
        ELSE /\ canvas' = <<Scaled(size[1]), Scaled(size[2])>>
             /\ cols' = SPRITE_COLS /\ rows' = SPRITE_ROWS
             /\ cell' = <<Scaled(size[1]) \div SPRITE_COLS,
                          Scaled(size[2]) \div SPRITE_ROWS>>
             /\ io' = {"stat", "open", "write"}
             /\ pc' = "done" /\ err' = "" /\ exit_code' = 0
    /\ open_frames' = 1
    /\ UNCHANGED <<N, K, inputVars, motionVars, sel, pad, placed, meta,
                   folderVars, images, sizeVars, pixelVars>>

\* the folders analyze_sequence is run on: short ones, and one longer than
\* the 60 frames it reads
SequenceFolders ==
    (0..MaxCapN) \cup {SEQUENCE_FRAMES + 1}

\* analyze_frames.analyze_sequence: list the folder
StartSequence ==
    /\ pc = "start"
    /\ \E n \in SequenceFolders :
        \E bad \in BadChoices(n) :
            /\ Folder(n, bad)
            /\ N' = n
    /\ script' = "analyze_frames"
    /\ K' = SEQUENCE_FRAMES
    /\ io' = {"listdir"}
    /\ pc' = "scanning"
    /\ UNCHANGED <<inputVars, motionVars, sel, err, layoutVars, placed, meta,
                   images, sizeVars, open_frames, pixelVars, exit_code>>

\* the number of iterations of the loop of analyze_sequence done so far
Scanned ==
    IF open_frames = 0 THEN 0 ELSE Len(D) + 1

\* one iteration of the loop of analyze_sequence: open frame i (no try),
\* compare it with the frame before it, close that one.  Two images are open
\* while they are compared, one when the iteration ends.  The frames past
\* the first MaxD are taken to be equal.
ScanFrame ==
    /\ pc = "scanning"
    /\ Scanned < Min(SEQUENCE_FRAMES, N)
    /\ io' = io \cup {"open"}
    /\ CASE Scanned = bad_file /\ bad_kind = "open" ->
                /\ pc' = "failed" /\ err' = "UnidentifiedImageError"
                /\ exit_code' = 1
                /\ UNCHANGED <<D, open_frames>>
         [] Scanned > 0 /\ bad_kind = "decode"
                /\ bad_file \in {Scanned - 1, Scanned} ->
                /\ pc' = "failed" /\ err' = "OSError" /\ exit_code' = 1
                /\ open_frames' = 2
                /\ UNCHANGED D
         [] OTHER ->
                /\ IF Scanned = 0
                   THEN D' = D
                   ELSE \E d \in (IF Len(D) < MaxD THEN DVals ELSE {0}) :
                            D' = Append(D, d)
                /\ open_frames' = 1
                /\ UNCHANGED <<pc, err, exit_code>>
    /\ UNCHANGED <<script, N, K, inputVars, groups, best_start, sel,
                   layoutVars, placed, meta, folderVars, images, sizeVars,
                   pixelVars>>

\* the end of analyze_sequence: close the last frame, print the differences
\* and the suggested cycle; nothing is written
FinishSequence ==
    /\ pc = "scanning"
    /\ Scanned = Min(SEQUENCE_FRAMES, N)
    /\ open_frames' = 0
    /\ exit_code' = 0
    /\ pc' = "done"
    /\ UNCHANGED <<script, N, K, inputVars, motionVars, sel, err, layoutVars,
                   placed, meta, folderVars, images, sizeVars, pixelVars, io>>

Next ==
    \/ InputMissing
    \/ Usage
    \/ SelectBailongma2k
    \/ SelectJueying
    \/ SelectZhaoyeyushizi
    \/ SelectHeadCap
    \/ SelectSmooth
    \/ SelectMerge
    \/ SelectSpriteSheet
    \/ SelectBailongmaSprite
    \/ StartRepack
    \/ AnalyzeFrames
    \/ ExtractMotionCycle
    \/ LayoutBailongma2k
    \/ LayoutJueying
    \/ LayoutFixedGrid
    \/ LayoutSmooth
    \/ LayoutMerge
    \/ LayoutSpriteSheet
    \/ LayoutFirstFrame
    \/ LayoutOptimized
    \/ Paste
    \/ Emit
    \/ OptimizeMuwang
    \/ OptimizeSprite
    \/ StartSequence
    \/ ScanFrame
    \/ FinishSequence

Spec == Init /\ [][Next]_vars

(***************************************************************************)
(* Properties.                                                             *)
(***************************************************************************)
StrictlyIncreasing(s) ==
    \A i \in 1..(Len(s) - 1) : s[i] < s[i + 1]

InRange(s, n) ==
    \A i \in 1..Len(s) : 0 <= s[i] /\ s[i] < n

CeilDiv(a, b) ==
    IF a % b = 0 THEN a \div b ELSE (a \div b) + 1

\* the scripts whose selection is the uniform policy (endpoints 0 and N-1)
UniformScripts == {"create_bailongma_2k", "create_jueying_sprite"}

\* C1: under every policy and for every N, K and policy parameters with
\* 1 <= K <= N, the returned index list is strictly increasing and every
\* index lies in [0, N).  (A run that raises returns no list: C5.)
C1_SelectionMonotone ==
    (pc = "selected" /\ 1 <= K /\ K <= N)
        => StrictlyIncreasing(sel) /\ InRange(sel, N)

\* a head-cap selection of 2 <= K <= N frames from a folder longer than the
\* cap, which skips frames
C1_Witness ==
    /\ pc = "selected" /\ script = "recreate_baititiwu_sprite"
    /\ 2 <= K /\ K <= N /\ head_cap < N
    /\ Len(sel) = K /\ sel[K] > K - 1

\* C2: for N >= 1 and K >= 2 the list returned by the uniform policy starts
\* at 0 and ends at N-1.
C2_UniformEndpoints ==
    (pc = "selected" /\ script \in UniformScripts /\ N >= 1 /\ K >= 2)
        => sel # << >> /\ sel[1] = 0 /\ sel[Len(sel)] = N - 1

\* C3 as claimed: for M <= N and 2 <= K < M the head-cap selection is
\* floor(i*(M-1)/(K-1)) for i in 0..K-1, so it starts at 0 and ends at M-1.
C3_HeadCapUniformOnPrefix ==
    (pc = "selected" /\ script = "recreate_baititiwu_sprite"
        /\ head_cap <= N /\ 2 <= K /\ K < head_cap)
        => /\ sel = [i \in 1..K |-> ((i - 1) * (head_cap - 1)) \div (K - 1)]
           /\ sel[1] = 0 /\ sel[K] = head_cap - 1

\* C3 as amended: for M <= N and 2 <= K < M the head-cap selection is
\* floor(i*M/K) for i in 0..K-1; it starts at 0 and ends at
\* floor((K-1)*M/K) = M - ceil(M/K), which is at most M-2.
C3_HeadCapStride ==
    (pc = "selected" /\ script = "recreate_baititiwu_sprite"
        /\ head_cap <= N /\ 2 <= K /\ K < head_cap)
        => /\ sel = [i \in 1..K |-> ((i - 1) * head_cap) \div K]
           /\ sel[1] = 0
           /\ sel[K] = head_cap - CeilDiv(head_cap, K)
           /\ sel[K] <= head_cap - 2

\* a head-cap run with 2 <= K < M <= N whose last index is below M-1
C3_Witness ==
    /\ pc = "selected" /\ script = "recreate_baititiwu_sprite"
    /\ head_cap <= N /\ 2 <= K /\ K < head_cap
    /\ Len(sel) = K /\ sel[K] < head_cap - 1

\* C4: whenever 1 <= N <= K the uniform selection returns exactly
\* [0, 1, ..., N-1] and the run continues to packing.
C4_DegenerateFullList ==
    (script \in UniformScripts /\ pc \in {"selected", "failed"}
        /\ 1 <= N /\ N <= K)
        => pc = "selected" /\ sel = Range(N)

\* C5: the uniform selection with K = 1 returns [0] for every N >= 1,
\* without error.
C5_SingleFrame ==
    (script \in UniformScripts /\ pc \in {"selected", "failed"}
        /\ K = 1 /\ N >= 1)
        => pc = "selected" /\ sel = <<0>>

\* C6: the start returned by the motion window lies in [0, N-K], its window
\* sum is the maximum over the window starts, and it is the smallest start
\* with that sum.  (The starts compared are those whose K values all exist
\* in D, 0..N-1-K; K is the window size the code uses.)
C6_MotionWindowOptimal ==
    (pc = "selected" /\ script = "optimize_frames" /\ window_size <= N)
        => /\ best_start \in 0..(N - window_size)
           /\ \A b \in 0..(Len(D) - window_size) :
                /\ Activity(D, b, window_size) <= Activity(D, best_start, window_size)
                /\ Activity(D, b, window_size) = Activity(D, best_start, window_size)
                    => best_start <= b

\* C7: the motion window policy returns the K indices a, ..., a+K-1 for the
\* requested K; for N = 64, K = 24 and activity in frames 40..63 it returns
\* exactly 40..63.
C7_MotionWindowRange ==
    (pc = "selected" /\ script = "optimize_frames" /\ K <= N)
        => /\ sel = [i \in 1..K |-> best_start + i - 1]
           /\ (N = 64 /\ K = 24 /\ D = PeakSignal)
                => sel = [i \in 1..24 |-> 39 + i]

\* D[i] < 0.3 * mean(D) in exact arithmetic (i counts from 0)
BelowTau(differences, i) ==
    10 * Len(differences) * differences[i + 1] < 3 * Sum(differences)

\* C8: every run the analyzer returns is a contiguous index interval of D
\* that is maximal (its neighbours in D, where they exist, are >= tau), is
\* longer than 5, and holds only values < tau, for tau = 0.3 * mean(D).
C8_QuiescentRuns ==
    pc = "analyzed" =>
        \A g \in 1..Len(groups) :
            LET run == groups[g]
                a   == run[1]
                b   == run[Len(run)]
            IN  /\ run = [i \in 1..(b - a + 1) |-> a + i - 1]
                /\ 0 <= a /\ b <= Len(D) - 1
                /\ Len(run) > 5
                /\ \A i \in a..b : BelowTau(D, i)
                /\ a > 0 => ~BelowTau(D, a - 1)
                /\ b < Len(D) - 1 => ~BelowTau(D, b + 1)

\* an analysis that returned a run that does not start at the first index
C8_Witness ==
    /\ pc = "analyzed"
    /\ Len(groups) >= 1
    /\ groups[1][1] > 0

\* the scripts whose packer computes rows = ceil(count / frames_per_row)
ComputedRowScripts ==
    {"create_bailongma_2k", "create_jueying_sprite", "optimize_frames",
     "create_sprite_sheet", "create_zhahuangfeidian_sprite"}

\* C9: with R = ceil(K/C), the K cell rectangles of size Wc x Hc are pairwise
\* disjoint and lie inside the allocated canvas, which is (C*Wc) x (R*Hc);
\* the cells are those at pos(i) = ((i mod C)*Wc, floor(i/C)*Hc).
C9_CellsDisjoint ==
    (pc \in {"packing", "done"} /\ script \in ComputedRowScripts) =>
        /\ pad = 0 =>
            /\ canvas = <<cols * cell[1], CeilDiv(Len(sel), cols) * cell[2]>>
            /\ \A i \in 1..Len(placed) :
                placed[i] = <<((i - 1) % cols) * cell[1],
                              ((i - 1) \div cols) * cell[2]>>
        /\ \A i \in 1..Len(placed) :
            /\ 0 <= placed[i][1] /\ placed[i][1] + cell[1] <= canvas[1]
            /\ 0 <= placed[i][2] /\ placed[i][2] + cell[2] <= canvas[2]
        /\ \A i, j \in 1..Len(placed) :
            i < j =>
                \/ placed[i][1] + cell[1] <= placed[j][1]
                \/ placed[j][1] + cell[1] <= placed[i][1]
                \/ placed[i][2] + cell[2] <= placed[j][2]
                \/ placed[j][2] + cell[2] <= placed[i][2]

\* a finished atlas of several rows whose last row is not full
C9_Witness ==
    /\ pc = "done" /\ script \in ComputedRowScripts /\ pad = 0
    /\ rows >= 2 /\ cols >= 2
    /\ Len(placed) = Len(sel)
    /\ Len(placed) % cols # 0

\* C10: frame i of the atlas has its top-left corner at
\* ((i mod C)*Wc, floor(i/C)*Hc) for the Wc, Hc and C printed for the animator.
C10_AnimatorIndexing ==
    pc = "done" =>
        \A i \in 1..Len(placed) :
            placed[i] = <<((i - 1) % meta.framesPerRow) * meta.frameWidth,
                          ((i - 1) \div meta.framesPerRow) * meta.frameHeight>>

\* C11: in a finished atlas, the cell at pos(i) holds, in all four channels,
\* the transformed frame selected at position i, whatever the alpha of the
\* source pixels, partial alpha included (stated for runs whose files are
\* all intact and whose pixels are not fully transparent).
C11_PackRoundTrip ==
    (pc = "done" /\ bad_kind = "none" /\ alpha > 0) =>
        \A i \in 1..Len(placed) :
            atlas[CellAt(placed[i], cols, cell[1], cell[2], pad) + 1]
                = HandedPixel(i)

\* C12: after packing K frames into the R x C grid, every cell j in
\* [K, R*C) is fully transparent, as the canvas was filled.
C12_UnusedCellsTransparent ==
    (pc = "done" /\ Len(atlas) = rows * cols) =>
        \A j \in (Len(sel) + 1)..(rows * cols) : atlas[j] = <<0, 0, 0, 0>>

\* C13: a run invoked with an invalid parameter (here frames_per_row <= 0)
\* ends in a fatal error, and no directory listing, frame open or output
\* write has happened when the error is reported.
C13_ValidationBeforeIO ==
    (script = "create_sprite_sheet" /\ pc \in {"packing", "done", "failed"}
        /\ err # "FolderMissing" /\ err # "NoFrames" /\ cols <= 0)
        => pc = "failed" /\ io = {}

\* C14: a run exits with status 0 only on success; when the folder is missing
\* or holds no frame the run exits with a non-zero status.  (A run that only
\* prints its usage is left aside.)
C14_ExitStatus ==
    /\ (exit_code = 0 /\ err # "Usage") => pc = "done"
    /\ err \in {"FolderMissing", "NoFrames"}
        => pc = "failed" /\ exit_code > 0

\* C15: when one file cannot be opened or decoded, no exception of that file
\* ends the run, and the N used for selection and packing is the number of
\* remaining files.
C15_CorruptInputSkipped ==
    bad_kind # "none" =>
        /\ err \notin {"UnidentifiedImageError", "OSError"}
        /\ pc \in {"selected", "packing", "done"} => N = files - 1

\* C16: for the range [START_FRAME, END_FRAME] the selection is exactly
\* START_FRAME, ..., END_FRAME, and the frame count packed into the atlas and
\* printed for the animator is END_FRAME - START_FRAME + 1; the range 40..63
\* gives 24 frames on the 6 x 4 grid.
C16_ExplicitRange ==
    (script = "create_smooth_sprite" /\ pc \in {"selected", "packing", "done"})
        => /\ sel = [i \in 1..(END_FRAME - START_FRAME + 1) |-> START_FRAME + i - 1]
           /\ K = END_FRAME - START_FRAME + 1
           /\ pc = "done" =>
                /\ Len(placed) = END_FRAME - START_FRAME + 1
                /\ meta.frameCount = END_FRAME - START_FRAME + 1
                /\ (START_FRAME = 40 /\ END_FRAME = 63)
                    => Len(placed) = 24 /\ cols = 6 /\ rows = 4

\* C17: under every policy the selected index list has exactly K entries,
\* K the requested frame count (stated for 1 <= K <= N).
C17_SelectionLength ==
    (pc = "selected" /\ 1 <= K /\ K <= N) => Len(sel) = K

\* [a, b] is a maximal interval of D with every value < tau
MaximalBelow(differences, a, b) ==
    /\ \A i \in a..b : BelowTau(differences, i)
    /\ a > 0 => ~BelowTau(differences, a - 1)
    /\ b < Len(differences) - 1 => ~BelowTau(differences, b + 1)

\* the interval [a, b] is one of the runs returned
Returned(a, b) ==
    \E g \in 1..Len(groups) : groups[g] = [i \in 1..(b - a + 1) |-> a + i - 1]

\* C18 as claimed: a maximal below-threshold interval is returned as a run
\* exactly when its length is 5 or more.
C18_RunsOf5Returned ==
    pc = "analyzed" =>
        \A a \in 0..(Len(D) - 1) : \A b \in a..(Len(D) - 1) :
            MaximalBelow(D, a, b) => (Returned(a, b) <=> b - a + 1 >= 5)

\* C18 as amended: a maximal below-threshold interval is returned as a run
\* exactly when its length is 6 or more; those of length 5 or less are
\* discarded.
C18_RunsOver5Returned ==
    pc = "analyzed" =>
        \A a \in 0..(Len(D) - 1) : \A b \in a..(Len(D) - 1) :
            MaximalBelow(D, a, b) => (Returned(a, b) <=> b - a + 1 >= 6)

\* an analysis with a maximal below-threshold interval of exactly 5 values,
\* which is discarded
C18_Witness ==
    /\ pc = "analyzed"
    /\ \E a \in 0..(Len(D) - 5) :
        MaximalBelow(D, a, a + 4) /\ ~Returned(a, a + 4)

\* C19: at every moment of a run at most two opened frames are unreleased.
C19_AtMostTwoOpen ==
    open_frames <= 2

\* C20: when the paste loop of create_smooth_sprite or of merge_sprite has
\* finished, every frame it opened has been closed, also the frames whose
\* resize or paste raised.
C20_FramesReleased ==
    (script \in TryScripts /\ pc = "done") => open_frames = 0

\* C21: in create_sprite_sheet and create_zhahuangfeidian_sprite, when the
\* loaded frames have more than one distinct size, every frame handed to the
\* packer has the size (max w, max h), the original (w, h) sits in it at the
\* offset (floor((max w - w)/2), floor((max h - h)/2)) and wholly inside it,
\* and the cell of the atlas has the size (max w, max h).
C21_PaddingMode ==
    (script \in AdjustScripts /\ pc \in {"packing", "done"}
        /\ \E i, j \in 1..Len(sizes) : sizes[i] # sizes[j]) =>
        /\ \A i \in 1..Len(sizes) :
            sizes[i][1] <= cell[1] /\ sizes[i][2] <= cell[2]
        /\ \E i \in 1..Len(sizes) : sizes[i][1] = cell[1]
        /\ \E i \in 1..Len(sizes) : sizes[i][2] = cell[2]
        /\ Len(adjusted) = Len(sizes)
        /\ \A i \in 1..Len(sizes) :
            LET off == adjusted[i].offset
            IN  /\ adjusted[i].size = cell
                /\ adjusted[i].inner = sizes[i]
                /\ 2 * off[1] <= cell[1] - sizes[i][1]
                /\ cell[1] - sizes[i][1] <= 2 * off[1] + 1
                /\ 2 * off[2] <= cell[2] - sizes[i][2]
                /\ cell[2] - sizes[i][2] <= 2 * off[2] + 1
                /\ 0 <= off[1] /\ off[1] + sizes[i][1] <= cell[1]
                /\ 0 <= off[2] /\ off[2] + sizes[i][2] <= cell[2]
        /\ \A i \in 1..Len(placed) : HandedSize(i) = cell

\* a finished atlas of create_sprite_sheet whose folder mixes two sizes, one
\* frame sitting at least one pixel right of and below the corner of its
\* adjusted image
C21_Witness ==
    /\ script = "create_sprite_sheet" /\ pc = "done"
    /\ Len(placed) >= 2
    /\ \E i, j \in 1..Len(sizes) : sizes[i] # sizes[j]
    /\ \E i \in 1..Len(adjusted) :
        adjusted[i].offset[1] >= 1 /\ adjusted[i].offset[2] >= 1

\* C22: at the end of every run, also one where a frame failed to load in the
\* paste loop or the folder holds fewer files than expected, the frame count
\* reported equals the number of frames pasted, and the cells
\* 0 .. count-1 are all populated.
C22_CountMatchesPasted ==
    pc = "done" =>
        /\ meta.frameCount = Cardinality({i \in 1..Len(pasted) : pasted[i]})
        /\ \A j \in 1..meta.frameCount : j <= Len(pasted) /\ pasted[j]

\* C23: pasting frame i changes only pixels of cell i; no other cell is
\* modified, also when the selected frames do not all have the size of the
\* first selected frame, from which the cell size is taken.
C23_PasteConfined ==
    [][(pc = "packing" /\ Len(placed') = Len(placed) + 1) =>
        \A c \in 1..Len(atlas) :
            c # Len(placed) + 1 => atlas'[c] = atlas[c]]_vars

\* C24: for K >= 1, C >= 1 and p >= 0, create_sprite_sheet places frame i at
\* ((i mod C)*(Wc+p), floor(i/C)*(Hc+p)); the cells are pairwise disjoint,
\* adjacent cells are exactly p pixels apart, and every cell lies inside the
\* canvas of (Wc*C + p*(C-1)) x (Hc*R + p*(R-1)), R = ceil(K/C).
C24_PaddedLayout ==
    (script = "create_sprite_sheet" /\ pc \in {"packing", "done"}) =>
        /\ rows = CeilDiv(Len(sel), cols)
        /\ canvas = <<cell[1] * cols + pad * (cols - 1),
                      cell[2] * rows + pad * (rows - 1)>>
        /\ \A i \in 1..Len(placed) :
            /\ placed[i] = <<((i - 1) % cols) * (cell[1] + pad),
                             ((i - 1) \div cols) * (cell[2] + pad)>>
            /\ 0 <= placed[i][1] /\ placed[i][1] + cell[1] <= canvas[1]
            /\ 0 <= placed[i][2] /\ placed[i][2] + cell[2] <= canvas[2]
        /\ \A i, j \in 1..Len(placed) :
            i < j =>
                \/ placed[i][1] + cell[1] <= placed[j][1]
                \/ placed[j][1] + cell[1] <= placed[i][1]
                \/ placed[i][2] + cell[2] <= placed[j][2]
                \/ placed[j][2] + cell[2] <= placed[i][2]
        /\ \A i \in 1..(Len(placed) - 1) :
            i % cols # 0 =>
                /\ placed[i + 1][2] = placed[i][2]
                /\ placed[i + 1][1] - (placed[i][1] + cell[1]) = pad
        /\ \A i \in 1..(Len(placed) - cols) :
            /\ placed[i + cols][1] = placed[i][1]
            /\ placed[i + cols][2] - (placed[i][2] + cell[2]) = pad

\* a finished atlas of create_sprite_sheet with padding, several columns and
\* several rows
C24_Witness ==
    /\ script = "create_sprite_sheet" /\ pc = "done"
    /\ pad >= 1 /\ cols >= 2 /\ rows >= 2
    /\ Len(placed) > cols

\* C25: the loop of optimize_sprite_v2 ends having written exactly 48 cells;
\* destination cell j receives frame 4*j of the 16 x 12 source grid; the
\* source indices are strictly increasing and below 192; every crop box lies
\* inside the source atlas and every destination cell inside the 8 x 6
\* canvas, and no cell is written twice.
C25_StrideRepack ==
    (script = "optimize_sprite_v2" /\ pc \in {"packing", "done"}) =>
        /\ Len(sel) = 48
        /\ pc = "done" =>
            /\ Len(placed) = 48
            /\ Cardinality({i \in 1..Len(pasted) : pasted[i]}) = 48
        /\ StrictlyIncreasing(sel) /\ InRange(sel, 192)
        /\ canvas = <<8 * 960, 6 * 544>>
        /\ \A j \in 1..Len(placed) :
            /\ sel[j] = 4 * (j - 1)
            /\ atlas[j] = FramePixel(4 * (j - 1), alpha)
            /\ placed[j] = <<((j - 1) % 8) * 960, ((j - 1) \div 8) * 544>>
            /\ 0 <= CropBox(sel[j])[1] /\ CropBox(sel[j])[1] < CropBox(sel[j])[3]
            /\ CropBox(sel[j])[3] <= 16 * 960
            /\ 0 <= CropBox(sel[j])[2] /\ CropBox(sel[j])[2] < CropBox(sel[j])[4]
            /\ CropBox(sel[j])[4] <= 12 * 544
            /\ CropBox(sel[j])[1] = (sel[j] % 16) * 960
            /\ CropBox(sel[j])[2] = (sel[j] \div 16) * 544
            /\ 0 <= placed[j][1] /\ placed[j][1] + 960 <= canvas[1]
            /\ 0 <= placed[j][2] /\ placed[j][2] + 544 <= canvas[2]
        /\ \A i, j \in 1..Len(placed) : i # j => placed[i] # placed[j]

\* the finished 8 x 6 atlas of optimize_sprite_v2, its last cell holding
\* source frame 188
C25_Witness ==
    /\ script = "optimize_sprite_v2" /\ pc = "done"
    /\ Len(placed) = 48
    /\ atlas[48] = FramePixel(188, alpha)
====
